---------------------------- MODULE Spec2Model ----------------------------
(***************************************************************************)
(* Model of dtafler/logo-paster: the batch pipeline of overlay_logo.py     *)
(* (stamp_folder, _add_logo_single, the command line shell and the GUI     *)
(* worker that call it) and the naming helpers of image_analyzer.py        *)
(* (SimpleLimiter, simple_retry, ImageAnalyzer).                           *)
(*                                                                         *)
(* Text is a sequence of one-character strings.  A float option value is   *)
(* an integer count of thousandths (opacity 1.0 is 1000).  An optional     *)
(* value (Python's None) is a set with at most one element.                *)
(***************************************************************************)
EXTENDS Integers, Sequences, FiniteSets, TLC

\* ------------------------------------------------------------------ bounds
\* At most this many files lie in the input tree.
MaxFiles == 3
\* simple_retry is explored for max_retries in 1..MaxRetriesBound.
MaxRetriesBound == 3
\* SimpleLimiter.wait is called at most this many times in the limiter runs.
MaxWaits == 3
\* The clock of the limiter runs stops advancing on its own at this value.
MaxClock == 6
\* time.sleep may oversleep by at most this many ticks.
MaxOversleep == 1

\* ------------------------------------------------------------------- text
Upper == <<"A","B","C","D","E","F","G","H","I","J","K","L","M",
           "N","O","P","Q","R","S","T","U","V","W","X","Y","Z">>
Lower == <<"a","b","c","d","e","f","g","h","i","j","k","l","m",
           "n","o","p","q","r","s","t","u","v","w","x","y","z">>

\* str.lower() on one character.
LowerChar(c) ==
    IF \E i \in DOMAIN Upper : Upper[i] = c
    THEN Lower[CHOOSE i \in DOMAIN Upper : Upper[i] = c]
    ELSE c

\* str.lower()
LowerStr(s) == [i \in DOMAIN s |-> LowerChar(s[i])]

\* str.rfind('.') as a 1-based index, 0 when there is no dot.
RFindDot(s) ==
    IF \E i \in DOMAIN s : s[i] = "."
    THEN CHOOSE i \in DOMAIN s : s[i] = "." /\ \A j \in DOMAIN s : s[j] = "." => j <= i
    ELSE 0

\* str.find('.') as a 1-based index, 0 when there is no dot.
FindDot(s) ==
    IF \E i \in DOMAIN s : s[i] = "."
    THEN CHOOSE i \in DOMAIN s : s[i] = "." /\ \A j \in DOMAIN s : s[j] = "." => i <= j
    ELSE 0

\* pathlib's PurePath.suffix: the final component's last dot and what follows,
\* unless that dot is the first or the last character.
PathSuffix(name) ==
    LET i == RFindDot(name)
    IN  IF 1 < i /\ i < Len(name) THEN SubSeq(name, i, Len(name)) ELSE <<>>

\* pathlib's PurePath.stem: the name without its suffix.
PathStem(name) ==
    LET i == RFindDot(name)
    IN  IF 1 < i /\ i < Len(name) THEN SubSeq(name, 1, i - 1) ELSE name

\* name.split('.')[0]
SplitDotFirst(name) ==
    LET i == FindDot(name)
    IN  IF i = 0 THEN name ELSE SubSeq(name, 1, i - 1)

\* image_extensions of stamp_folder
image_extensions ==
    { <<".","j","p","g">>, <<".","j","p","e","g">>, <<".","p","n","g">> }


\* -------------------------------------------------------- _clean_filename
Digits == {"0","1","2","3","4","5","6","7","8","9"}
Letters == {Upper[i] : i \in DOMAIN Upper} \cup {Lower[i] : i \in DOMAIN Lower}
\* What str.strip() removes.
Whitespace == {" ", "\t", "\n"}
\* The characters re.sub(r'[^a-zA-Z0-9_-]', '', ...) keeps.
KeptChars == Letters \cup Digits \cup {"_", "-"}
HypUnd == {"_", "-"}

\* str.lstrip(chars)
LStrip(s, cs) ==
    IF \A i \in DOMAIN s : s[i] \in cs THEN <<>>
    ELSE SubSeq(s, CHOOSE i \in DOMAIN s : s[i] \notin cs /\ \A j \in 1..(i - 1) : s[j] \in cs,
                Len(s))

\* str.rstrip(chars)
RStrip(s, cs) ==
    IF \A i \in DOMAIN s : s[i] \in cs THEN <<>>
    ELSE SubSeq(s, 1,
                CHOOSE i \in DOMAIN s : s[i] \notin cs /\ \A j \in (i + 1)..Len(s) : s[j] \in cs)

\* str.strip(chars)
Strip(s, cs) == RStrip(LStrip(s, cs), cs)

\* str.replace(' ', '_')
SpacesToUnderscores(s) == [i \in DOMAIN s |-> IF s[i] = " " THEN "_" ELSE s[i]]

KeepChar(c) == c \in KeptChars

\* re.sub(r'[^a-zA-Z0-9_-]', '', s)
RemoveOtherChars(s) == SelectSeq(s, KeepChar)

RECURSIVE CollapseRuns(_)
\* re.sub(r'[_-]+', '_', s): each maximal run of hyphens and underscores
\* becomes one underscore.
CollapseRuns(s) ==
    IF s = <<>> THEN <<>>
    ELSE IF Head(s) \in HypUnd
         THEN <<"_">> \o CollapseRuns(LStrip(s, HypUnd))
         ELSE <<Head(s)>> \o CollapseRuns(Tail(s))

\* The truncation of line 189 without its rstrip.
TruncateKeepEdge(s, max_length) ==
    IF Len(s) > max_length THEN SubSeq(s, 1, max_length) ELSE s

\* The cut made one character too late.
TruncateLate(s, max_length) ==
    IF Len(s) > max_length THEN RStrip(SubSeq(s, 1, max_length + 1), HypUnd) ELSE s

\* lines 188-189: a name longer than max_length is cut to max_length
\* characters and hyphens and underscores are stripped from its end.
Truncate(s, max_length) ==
    IF Len(s) > max_length THEN RStrip(SubSeq(s, 1, max_length), HypUnd) ELSE s

\* lines 173-189 of _clean_filename: the name before the length check.
Cleaned(filename, max_length) ==
    LET f1 == Strip(Strip(Strip(filename, Whitespace), {"\""}), {"'"})
        f2 == SpacesToUnderscores(f1)
        f3 == RemoveOtherChars(f2)
        f4 == CollapseRuns(f3)
        f5 == Strip(f4, HypUnd)
    IN  Truncate(f5, max_length)

\* The fallback taken only below two characters.
CleanFilenameMinTwo(filename, max_length, orig_filename) ==
    LET c == Cleaned(filename, max_length)
    IN  IF Len(c) < 2 THEN orig_filename ELSE c

\* ImageAnalyzer._clean_filename
CleanFilename(filename, max_length, orig_filename) ==
    LET c == Cleaned(filename, max_length)
    IN  IF Len(c) < 3 THEN orig_filename ELSE c

\* -------------------------------------------------------------- variables
VARIABLES
    \* the batch: stamp_folder, its caller and the file system
    args, disk, dirs, pc, im_paths, idx, save_dir, analyzer, outcome, log,
    opened, logoOpens, written, made, cur,
    \* simple_retry
    rPc, attempt, max_retries, hist, sleeps, rResult,
    \* SimpleLimiter and the clock
    now, last, min_interval_s, lRet, lSlept,
    \* one call of a function on its own: its arguments and what it returned
    call, ret,
    \* the threads inside SimpleLimiter.wait
    threads

batchVars == <<args, disk, dirs, pc, im_paths, idx, save_dir, analyzer, outcome,
               log, opened, logoOpens, written, made, cur>>
retryVars == <<rPc, attempt, max_retries, hist, sleeps, rResult>>
limVars   == <<now, last, min_interval_s, lRet, lSlept>>
callVars  == <<call, ret>>
vars      == <<batchVars, retryVars, limVars, callVars, threads>>

Max(a, b) == IF a >= b THEN a ELSE b

\* ------------------------------------------------------------ SimpleLimiter
\* The wall clock when the program starts, in ticks since the epoch.
StartClock == 1000

\* SimpleLimiter.__init__: min_interval_s = max(0.0, min_interval_s), _last = 0.0
LimiterInterval(arg) == Max(0, arg)

\* wait_s computed without the interval.
WaitSNoInterval == Max(0, last - now)

\* wait_s of SimpleLimiter.wait
WaitS == Max(0, last + min_interval_s - now)

\* SimpleLimiter.wait: sleep for wait_s when it is not zero (time.sleep never
\* returns early and may oversleep by `over`), then stamp _last and return.
LimiterWait(over) ==
    /\ now' = IF WaitS # 0 THEN now + WaitS + over ELSE now
    /\ last' = now'
    /\ UNCHANGED min_interval_s

\* ------------------------------------------------------------- simple_retry
\* The value of an absent attribute or header: Python's None.
None == {}

\* `a or b` on optional numbers: None and 0 are falsy.
PyOr(a, b) == IF a = None \/ a = {0} THEN b ELSE a

\* float(ra) guarded by try/except: the number a header text parses to, None
\* when it does not parse.
ParseFloat(ra) ==
    CASE ra = "0" -> {0}
      [] ra = "2" -> {2}
      [] ra = "5" -> {5}
      [] OTHER -> None

\* status of simple_retry's handler (line 35)
StatusOf(e) == PyOr(e.status_code, e.http_status)

\* retry_after of simple_retry's handler (lines 36-43): read only from a dict
\* of headers, under either spelling of the key.
RetryAfterOf(e) ==
    IF ~e.headers_is_dict THEN None
    ELSE LET ra == IF e.retry_after_hdr # None THEN e.retry_after_hdr
                   ELSE e.retry_after_hdr_lc
         IN  IF ra = None THEN None ELSE ParseFloat(CHOOSE v \in ra : TRUE)

TransientStatuses == {429, 500, 502, 503, 504}

\* The classification with 504 left out of the tuple.
TransientNo504(e) ==
    LET status == StatusOf(e)
    IN  (\E s \in status : s \in TransientStatuses \ {504}) \/ status = None

\* transient of simple_retry's handler (line 45)
Transient(e) ==
    LET status == StatusOf(e)
    IN  (\E s \in status : s \in TransientStatuses) \/ status = None

RECURSIVE Pow2(_)
\* 2 ** n
Pow2(n) == IF n = 0 THEN 1 ELSE 2 * Pow2(n - 1)

\* base of simple_retry's sleep (line 50), in seconds
SleepBase(e, att) ==
    LET retry_after == RetryAfterOf(e)
    IN  IF retry_after # None THEN CHOOSE v \in retry_after : TRUE ELSE Pow2(att)

\* The guard with the last attempt off by one.
GivesUpLate(e, att, n) == att = n \/ ~Transient(e)

\* The guard of `raise` in the handler (line 46).
GivesUp(e, att, n) == att = n - 1 \/ ~Transient(e)

\* An exception raised by the wrapped call.
Err(sc, hs, isdict, ra, ralc) ==
    [ok |-> FALSE, status_code |-> sc, http_status |-> hs, headers_is_dict |-> isdict,
     retry_after_hdr |-> ra, retry_after_hdr_lc |-> ralc]

\* A value returned by the wrapped call.
Ok(text) == [ok |-> TRUE, text |-> text]

\* simple_retry entered: `for attempt in range(max_retries)` starts at 0.
RetryEnter(n) ==
    /\ max_retries' = n
    /\ attempt' = 0
    /\ hist' = <<>>
    /\ sleeps' = <<>>
    /\ rResult' = <<>>
    /\ rPc' = "call"

\* `return call()` (lines 30-33): inside the loop the call returns, or raises
\* into the handler.
RetryCallStep(o) ==
    /\ rPc = "call"
    /\ attempt < max_retries
    /\ hist' = Append(hist, o)
    /\ rResult' = <<o>>
    /\ rPc' = IF o.ok THEN "returned" ELSE "except"
    /\ UNCHANGED <<attempt, max_retries, sleeps>>

\* range(max_retries) is exhausted without a return or a raise: the function
\* falls off its end and returns None (line 30; only max_retries = 0 gets here).
RetryLoopEndStep ==
    /\ rPc = "call"
    /\ attempt >= max_retries
    /\ rResult' = <<Ok(None)>>
    /\ rPc' = "returned"
    /\ UNCHANGED <<attempt, max_retries, hist, sleeps>>

\* The factor 0.8 + 0.4 * random.random() in thousandths: samples of [0.8, 1.2).
JitterSamples == {800, 1199}

\* The handler (lines 34-51): re-raise on the last attempt or a non-transient
\* error, else sleep base * jitter and go round the loop.
RetryHandleStep(jitter) ==
    /\ rPc = "except"
    /\ LET e == hist[Len(hist)]
       IN  IF GivesUp(e, attempt, max_retries)
           THEN /\ rPc' = "raised"
                /\ UNCHANGED <<attempt, sleeps>>
           ELSE /\ sleeps' = Append(sleeps, [base |-> SleepBase(e, attempt),
                                             jitter |-> jitter])
                /\ attempt' = attempt + 1
                /\ rPc' = "call"
    /\ UNCHANGED <<max_retries, hist, rResult>>

\* ------------------------------------------- simple_retry on its own
\* _add_logo_single is not running: no image, no name.
NoCur == [step |-> "none", path |-> [dir |-> "", name |-> <<>>], im_width |-> 0,
          ai_filename |-> <<>>]

\* The batch and the limiter are not running.
BatchOff ==
    /\ args = [entry |-> "none"]
    /\ disk = {} /\ dirs = {} /\ pc = "off" /\ im_paths = <<>> /\ idx = 0
    /\ save_dir = "None" /\ analyzer = FALSE /\ outcome = "off" /\ log = {}
    /\ opened = <<>> /\ logoOpens = 0 /\ written = <<>> /\ made = {} /\ cur = NoCur

LimiterOff ==
    /\ now = StartClock /\ last = 0 /\ min_interval_s = 0
    /\ lRet = <<>> /\ lSlept = <<>>

RetryOff ==
    /\ rPc = "off" /\ attempt = 0 /\ max_retries = 0
    /\ hist = <<>> /\ sleeps = <<>> /\ rResult = <<>>

\* No function is called on its own and no thread is in wait().
CallOff ==
    /\ call = [fn |-> "none"] /\ ret = <<>>
    /\ threads = <<>>

\* Header texts a service may send as Retry-After.
HeaderTexts == {"0", "2", "soon"}

\* The exceptions the wrapped call raises in the retry runs: errors with an
\* HTTP status in status_code or in http_status, errors with neither, with and
\* without a Retry-After hint.
RetryErrors ==
    { Err({s}, None, d, None, None) : s \in TransientStatuses \cup {400, 404}, d \in {FALSE} }
    \cup { Err(None, hs, TRUE, None, None) : hs \in {None, {503}, {401}} }
    \cup { Err({400}, {503}, FALSE, None, None) }
    \cup { Err({429}, None, TRUE, {h}, None) : h \in HeaderTexts }
    \cup { Err({429}, None, FALSE, {"2"}, None) }
    \cup { Err(None, None, TRUE, None, {"5"}) }

RetryOutcomes == RetryErrors \cup { Ok(<<"o","k">>) }

InitRetry ==
    /\ BatchOff /\ LimiterOff /\ CallOff
    /\ max_retries \in 0..MaxRetriesBound
    /\ attempt = 0 /\ hist = <<>> /\ sleeps = <<>> /\ rResult = <<>>
    /\ rPc = "call"

RetryCall ==
    /\ \E o \in RetryOutcomes : RetryCallStep(o)
    /\ UNCHANGED <<batchVars, limVars, callVars, threads>>

RetryLoopEnd ==
    /\ RetryLoopEndStep
    /\ UNCHANGED <<batchVars, limVars, callVars, threads>>

RetryHandle ==
    /\ \E j \in JitterSamples : RetryHandleStep(j)
    /\ UNCHANGED <<batchVars, limVars, callVars, threads>>

NextRetry == RetryCall \/ RetryLoopEnd \/ RetryHandle

SpecRetry == InitRetry /\ [][NextRetry]_vars

\* ------------------------------------------- SimpleLimiter on its own
\* min_interval_s as given to the constructor, in ticks.
MinIntervalArgs == {-1, 0, 1, 2, 3}

InitLimiter ==
    /\ BatchOff /\ RetryOff /\ CallOff
    /\ \E arg \in MinIntervalArgs : min_interval_s = LimiterInterval(arg)
    /\ last = 0
    /\ now = StartClock
    /\ lRet = <<>> /\ lSlept = <<>>

\* One caller calls wait().
Wait ==
    /\ Len(lRet) < MaxWaits
    /\ \E over \in 0..MaxOversleep : LimiterWait(over)
    /\ lRet' = Append(lRet, now')
    /\ lSlept' = Append(lSlept, WaitS # 0)
    /\ UNCHANGED <<batchVars, retryVars, callVars, threads>>

\* Time passes between two calls.
Tick ==
    /\ now < StartClock + MaxClock
    /\ now' = now + 1
    /\ UNCHANGED <<last, min_interval_s, lRet, lSlept, batchVars, retryVars, callVars, threads>>

NextLimiter == Wait \/ Tick

SpecLimiter == InitLimiter /\ [][NextLimiter]_vars


\* ===================================================== the batch pipeline
Path(d, n) == [dir |-> d, name |-> n]

x_jpg == <<"x", ".", "j", "p", "g">>
y_PNG == <<"y", ".", "P", "N", "G">>
n_txt == <<"n", ".", "t", "x", "t">>

\* The files that may lie under the input directory (dir is relative to it;
\* "output" holds what an earlier run left there).
CandidatePaths ==
    { Path("", x_jpg), Path("a", x_jpg), Path("", y_PNG), Path("a", n_txt),
      Path("output", x_jpg) }

Disks == { d \in SUBSET CandidatePaths : Cardinality(d) <= MaxFiles }

\* default of max_filename_length
DefaultMaxFilenameLength == 50
\* default of ImageAnalyzer's min_interval_s, in milliseconds
DefaultMinInterval == 250
\* default of simple_retry's max_retries
DefaultMaxRetries == 3
\* The logo's size in pixels.
LogoSize == [width |-> 200, height |-> 100]
\* Widths of the images on disk, in pixels.
ImWidths == {3, 800}

\* Option values: opacity and logo_scale in thousandths.
ValidOptions == [opacity |-> 1000, logo_scale |-> 200]
BadOptions ==
    { [opacity |-> 1500, logo_scale |-> 200], [opacity |-> -100, logo_scale |-> 200],
      [opacity |-> 1000, logo_scale |-> 0], [opacity |-> 1000, logo_scale |-> 1500],
      [opacity |-> 1000, logo_scale |-> 5] }

\* use_ai_naming, a key in the arguments, a key in OPENAI_API_KEY
AiOptions ==
    { [use_ai_naming |-> FALSE, api_key |-> FALSE, env_key |-> FALSE],
      [use_ai_naming |-> TRUE, api_key |-> TRUE, env_key |-> FALSE],
      [use_ai_naming |-> TRUE, api_key |-> FALSE, env_key |-> TRUE],
      [use_ai_naming |-> TRUE, api_key |-> FALSE, env_key |-> FALSE] }

Suffixes == { <<>>, <<"_", "s">> }

MkArgs(entry, o, ai, suffix, recursive, sd, logo_ok) ==
    [entry |-> entry, opacity |-> o.opacity, logo_scale |-> o.logo_scale,
     use_ai_naming |-> ai.use_ai_naming, api_key |-> ai.api_key, env_key |-> ai.env_key,
     suffix |-> suffix, recursive |-> recursive, save_dir |-> sd,
     max_filename_length |-> DefaultMaxFilenameLength, logo_ok |-> logo_ok]

\* What a caller may pass.  "cli" is the __main__ block, "gui" the GUI's worker
\* thread (no AI naming, no suffix, sliders keep the options in range), "api" a
\* direct call of stamp_folder.
CallerArgs ==
    { MkArgs(e, ValidOptions, ai, sfx, r, sd, l) :
        e \in {"cli", "api"}, ai \in AiOptions, sfx \in Suffixes, r \in BOOLEAN,
        sd \in {"None", "ext"}, l \in BOOLEAN }
    \cup
    { MkArgs(e, o, CHOOSE ai \in AiOptions : ~ai.use_ai_naming, <<>>, TRUE, "None", TRUE) :
        e \in {"cli", "api"}, o \in BadOptions }
    \cup
    { MkArgs("gui", ValidOptions, CHOOSE ai \in AiOptions : ~ai.use_ai_naming, <<>>, r, sd, l) :
        r \in BOOLEAN, sd \in {"None", "ext"}, l \in BOOLEAN }

Init ==
    /\ RetryOff /\ CallOff
    /\ now = StartClock /\ last = 0 /\ min_interval_s = 0 /\ lRet = <<>> /\ lSlept = <<>>
    /\ args \in CallerArgs
    /\ disk \in Disks
    /\ dirs \in { ds \in SUBSET {"output", "ext"} :
                    /\ (\E p \in disk : p.dir = "output") => "output" \in ds
                    /\ "ext" \in ds => args.save_dir = "ext" }
    /\ pc = "caller"
    /\ im_paths = <<>> /\ idx = 0 /\ save_dir = "None" /\ analyzer = FALSE
    /\ outcome = [kind |-> "running"]
    /\ log = {} /\ opened = <<>> /\ logoOpens = 0 /\ written = <<>> /\ made = {}
    /\ cur = NoCur

Others == <<retryVars, limVars, callVars, threads>>

\* ---- the callers
\* The checks with the opacity's upper limit left out.
CliRejectsNoUpperOpacity(a) ==
    \/ ~(0 <= a.opacity)
    \/ ~(10 <= a.logo_scale /\ a.logo_scale <= 1000)
    \/ (a.use_ai_naming /\ ~a.api_key /\ ~a.env_key)
    \/ a.max_filename_length < 10 \/ a.max_filename_length > 100

\* The checks of the __main__ block on the parsed arguments (lines 262-281).
CliRejects(a) ==
    \/ ~(0 <= a.opacity /\ a.opacity <= 1000)
    \/ ~(10 <= a.logo_scale /\ a.logo_scale <= 1000)
    \/ (a.use_ai_naming /\ ~a.api_key /\ ~a.env_key)
    \/ a.max_filename_length < 10 \/ a.max_filename_length > 100

\* __main__: parser.error() on a bad option (exit status 2, stamp_folder is not
\* called), else stamp_folder with the key from the arguments or the environment.
CliMain ==
    /\ pc = "caller" /\ args.entry = "cli"
    /\ IF CliRejects(args)
       THEN /\ outcome' = [kind |-> "usage_error"]
            /\ pc' = "exit"
            /\ UNCHANGED args
       ELSE /\ args' = [args EXCEPT !.api_key = args.api_key \/ (args.use_ai_naming /\ args.env_key)]
            /\ pc' = "discover"
            /\ UNCHANGED outcome
    /\ UNCHANGED <<disk, dirs, im_paths, idx, save_dir, analyzer, log, opened, logoOpens,
                   written, made, cur, Others>>

\* LogoStamperGUI._process_images_thread or a direct call: stamp_folder is
\* called with the arguments as they are.
DirectCall ==
    /\ pc = "caller" /\ args.entry \in {"gui", "api"}
    /\ pc' = "discover"
    /\ UNCHANGED <<args, disk, dirs, im_paths, idx, save_dir, analyzer, outcome, log,
                   opened, logoOpens, written, made, cur, Others>>

\* ---- stamp_folder
\* The paths rglob("*") or glob("*") yields that carry an image extension.
Discovered(d, recursive) ==
    { p \in d : (recursive \/ p.dir = "") /\ LowerStr(PathSuffix(p.name)) \in image_extensions }

\* The sequences that list every element of S once.
Orderings(S) ==
    { q \in [1..Cardinality(S) -> S] : \A i, j \in 1..Cardinality(S) : q[i] = q[j] => i = j }

\* lines 40-43: the list of image paths, in the order the file system gives.
Discover ==
    /\ pc = "discover"
    /\ im_paths' \in Orderings(Discovered(disk, args.recursive))
    /\ pc' = "check_dups"
    /\ UNCHANGED <<args, disk, dirs, idx, save_dir, analyzer, outcome, log, opened,
                   logoOpens, written, made, cur, Others>>

\* The check made on whole paths, which never repeat.
RepeatsWholePathAt(paths, i) == \E j \in 1..(i - 1) : paths[j] = paths[i]

\* Whether position i of the list repeats the file name of an earlier position.
RepeatsAt(paths, i) == \E j \in 1..(i - 1) : paths[j].name = paths[i].name

HasDuplicate(paths) == \E i \in DOMAIN paths : RepeatsAt(paths, i)

\* The ValueError of line 49: the first path whose name is already in
\* filename_dict, and the path stored there.
DuplicateError(paths) ==
    LET i == CHOOSE k \in DOMAIN paths : RepeatsAt(paths, k) /\ \A m \in 1..(k - 1) : ~RepeatsAt(paths, m)
        j == CHOOSE k \in 1..(i - 1) : paths[k].name = paths[i].name
    IN  [type |-> "ValueError", what |-> "duplicate", first |-> paths[j], second |-> paths[i]]

\* stamp_folder ends by raising exc to its caller.
Raises(exc) ==
    /\ outcome' = [kind |-> "raised", exc |-> exc]
    /\ pc' = "exit"

\* stamp_folder returns None.
Returns ==
    /\ outcome' = [kind |-> "returned"]
    /\ pc' = "exit"

\* lines 45-51: the duplicate file name check.
CheckDuplicates ==
    /\ pc = "check_dups"
    /\ IF HasDuplicate(im_paths)
       THEN Raises(DuplicateError(im_paths))
       ELSE pc' = "ai_init" /\ UNCHANGED outcome
    /\ UNCHANGED <<args, disk, dirs, im_paths, idx, save_dir, analyzer, log, opened,
                   logoOpens, written, made, cur, Others>>

\* lines 53-63: the analyzer is built when AI naming is on; a missing key is a
\* ValueError, a failing constructor is printed and ends the function.
AiInit ==
    /\ pc = "ai_init"
    /\ IF ~args.use_ai_naming
       THEN /\ pc' = "prepare"
            /\ UNCHANGED <<outcome, analyzer, log, last, min_interval_s>>
       ELSE IF ~args.api_key
       THEN /\ Raises([type |-> "ValueError", what |-> "api_key"])
            /\ UNCHANGED <<analyzer, log, last, min_interval_s>>
       ELSE \/ /\ analyzer' = TRUE
               /\ min_interval_s' = LimiterInterval(DefaultMinInterval)
               /\ last' = 0
               /\ log' = log \cup {[kind |-> "INFO", what |-> "ai_enabled"]}
               /\ pc' = "prepare"
               /\ UNCHANGED outcome
            \/ /\ log' = log \cup {[kind |-> "ERROR", what |-> "ai_init"]}
               /\ Returns
               /\ UNCHANGED <<analyzer, last, min_interval_s>>
    /\ UNCHANGED <<args, disk, dirs, im_paths, idx, save_dir, opened, logoOpens, written,
                   made, cur, retryVars, now, lRet, lSlept, callVars, threads>>

\* mkdir(exist_ok=True) never raises FileExistsError.
MkdirExistOk(d, existing) == FALSE

\* mkdir() of line 69 raises FileExistsError when the directory exists.
MkdirFails(d, existing) == d \in existing

\* lines 65-74: the output directory.  Without save_dir it is <input>/output,
\* made with mkdir(): an existing one is an error that ends the function.
\* A given save_dir is made if absent.
PrepareOutput ==
    /\ pc = "prepare"
    /\ IF args.save_dir = "None"
       THEN /\ save_dir' = "output"
            /\ IF MkdirFails("output", dirs)
               THEN /\ log' = log \cup {[kind |-> "INFO", what |-> "no_save_path"],
                                        [kind |-> "ERROR", what |-> "output_exists"]}
                    /\ Returns
                    /\ UNCHANGED <<dirs, made, idx>>
               ELSE /\ log' = log \cup {[kind |-> "INFO", what |-> "no_save_path"]}
                    /\ dirs' = dirs \cup {"output"}
                    /\ made' = made \cup ({"output"} \ dirs)
                    /\ pc' = "loop" /\ idx' = 1
                    /\ UNCHANGED outcome
       ELSE /\ save_dir' = args.save_dir
            /\ dirs' = dirs \cup {args.save_dir}
            /\ made' = made \cup ({args.save_dir} \ dirs)
            /\ pc' = "loop" /\ idx' = 1
            /\ UNCHANGED <<outcome, log>>
    /\ UNCHANGED <<args, disk, im_paths, analyzer, opened, logoOpens, written, cur, Others>>

\* line 76: the for loop takes the next path, or the function returns.
LoopNext ==
    /\ pc = "loop"
    /\ IF idx <= Len(im_paths)
       THEN /\ pc' = "open_im"
            /\ cur' = [NoCur EXCEPT !.step = "open_im", !.path = im_paths[idx]]
            /\ UNCHANGED outcome
       ELSE /\ Returns
            /\ cur' = NoCur
    /\ UNCHANGED <<args, disk, dirs, im_paths, idx, save_dir, analyzer, log, opened,
                   logoOpens, written, made, Others>>

\* The ValueError is printed and the loop goes on with the next path.
ValueErrorSwallowed(what) ==
    /\ log' = log \cup {[kind |-> "ERROR", what |-> what, path |-> cur.path]}
    /\ idx' = idx + 1
    /\ pc' = "loop"
    /\ cur' = NoCur
    /\ UNCHANGED outcome

\* lines 91-93: a ValueError out of _add_logo_single is printed and the loop is
\* left with break; the function then returns.
CaughtValueError(what) ==
    /\ log' = log \cup {[kind |-> "ERROR", what |-> what, path |-> cur.path]}
    /\ Returns
    /\ UNCHANGED <<idx, cur>>

\* The warning is printed and the batch stops.
UnreadableImageStops ==
    /\ log' = log \cup {[kind |-> "WARNING", what |-> "image_unreadable", path |-> cur.path]}
    /\ Returns
    /\ UNCHANGED <<idx, cur>>

\* lines 111-113: the warning is printed, _add_logo_single returns and the
\* loop goes on with the next path.
UnreadableImage ==
    /\ log' = log \cup {[kind |-> "WARNING", what |-> "image_unreadable", path |-> cur.path]}
    /\ idx' = idx + 1
    /\ pc' = "loop"
    /\ cur' = NoCur
    /\ UNCHANGED outcome

\* ---- _add_logo_single
\* lines 109-113: the image is opened; if that fails a warning is printed and
\* the function returns.
OpenImage ==
    /\ pc = "open_im"
    /\ opened' = Append(opened, cur.path)
    /\ \/ \E w \in ImWidths :
            /\ cur' = [cur EXCEPT !.step = "open_logo", !.im_width = w]
            /\ pc' = "open_logo"
            /\ UNCHANGED <<log, idx, outcome>>
       \/ UnreadableImage
    /\ UNCHANGED <<args, disk, dirs, im_paths, save_dir, analyzer, logoOpens,
                   written, made, Others>>

\* lines 115-119: the logo is opened; if that fails a ValueError is raised.
OpenLogo ==
    /\ pc = "open_logo"
    /\ logoOpens' = logoOpens + 1
    /\ IF args.logo_ok
       THEN /\ pc' = "composite"
            /\ cur' = [cur EXCEPT !.step = "composite"]
            /\ UNCHANGED <<outcome, log, idx>>
       ELSE CaughtValueError("logo_unreadable")
    /\ UNCHANGED <<args, disk, dirs, im_paths, save_dir, analyzer, opened, written,
                   made, Others>>

\* int(x / 1000) for x >= 0
IntPerMille(x) == x \div 1000

\* new_width of _process_logo_on_image (line 207)
NewWidth(im_width, logo_scale) ==
    IF im_width * logo_scale >= 0 THEN IntPerMille(im_width * logo_scale)
    ELSE -IntPerMille(-(im_width * logo_scale))

\* The height rounded to the nearest pixel instead of truncated.
NewHeightRounded(logo_height, new_width, logo_width) ==
    (2 * logo_height * new_width + logo_width) \div (2 * logo_width)

\* new_height of _process_logo_on_image (lines 208-209)
NewHeight(logo_height, new_width, logo_width) ==
    IF new_width >= 0 THEN (logo_height * new_width) \div logo_width
    ELSE -((logo_height * (-new_width)) \div logo_width)

\* Image.resize raises ValueError unless both sides are positive (line 210).
ResizeFails(im_width, logo_scale) ==
    LET nw == NewWidth(im_width, logo_scale)
    IN  nw < 1 \/ NewHeight(LogoSize.height, nw, LogoSize.width) < 1

\* lines 121-125: _process_logo_on_image.
Composite ==
    /\ pc = "composite"
    /\ IF ResizeFails(cur.im_width, args.logo_scale)
       THEN CaughtValueError("resize")
       ELSE /\ pc' = IF analyzer THEN "analyze" ELSE "save"
            /\ cur' = [cur EXCEPT !.step = "composited"]
            /\ UNCHANGED <<outcome, log, idx>>
    /\ UNCHANGED <<args, disk, dirs, im_paths, save_dir, analyzer, opened, logoOpens,
                   written, made, Others>>

\* ---- ImageAnalyzer.analyze_image
\* The texts the naming service answers with.
ServiceTexts == { <<"\"", "a", " ", "c", "a", "t", "!", "\"">>, <<"?">> }

\* What client.responses.create does in the batch: an answer, a rate limit
\* error, a client error.
ServiceOutcomes ==
    { Ok(t) : t \in ServiceTexts }
    \cup { Err({429}, None, FALSE, None, None), Err({404}, None, FALSE, None, None) }

\* The jitter factor of the batch's backoff sleeps, in thousandths.
BatchJitter == {1000}

\* lines 131-133 and 86-145: analyze_image prepares the request and enters
\* simple_retry through _call_responses.
AnalyzeStart ==
    /\ pc = "analyze"
    /\ log' = log \cup {[kind |-> "INFO", what |-> "analyzing", path |-> cur.path]}
    /\ RetryEnter(DefaultMaxRetries)
    /\ pc' = "naming"
    /\ UNCHANGED <<args, disk, dirs, im_paths, idx, save_dir, analyzer, outcome, opened,
                   logoOpens, written, made, cur, limVars, callVars, threads>>

\* _do of _call_responses (lines 69-71), called by simple_retry: wait on the
\* limiter, then send the request.
NamerCall ==
    /\ pc = "naming"
    /\ LimiterWait(0)
    /\ \E o \in ServiceOutcomes : RetryCallStep(o)
    /\ UNCHANGED <<batchVars, lRet, lSlept, callVars, threads>>

\* simple_retry's handler inside analyze_image; the sleep takes base * jitter.
NamerHandle ==
    /\ pc = "naming"
    /\ \E j \in BatchJitter :
         /\ RetryHandleStep(j)
         /\ now' = IF rPc' = "call" THEN now + sleeps'[Len(sleeps')].base * j ELSE now
    /\ UNCHANGED <<batchVars, last, min_interval_s, lRet, lSlept, callVars, threads>>

\* On failure the original name is returned instead of None.
AnalyzeResultNeverNone(path, max_length) == <<SplitDotFirst(path.name)>>

\* lines 148-159: the answer's text is cleaned and returned; any exception is
\* caught and None is returned.
AnalyzeResult(path, max_length) ==
    IF rPc = "returned"
    THEN LET generated_name == Strip(rResult[1].text, Whitespace)
             orig_filename == SplitDotFirst(path.name)
         IN  <<CleanFilename(generated_name, max_length, orig_filename)>>
    ELSE <<>>

\* analyze_image returns to _add_logo_single (lines 155-159, 133).
NamerDone ==
    /\ pc = "naming"
    /\ rPc \in {"returned", "raised"}
    /\ cur' = [cur EXCEPT !.step = "named",
                          !.ai_filename = AnalyzeResult(cur.path, args.max_filename_length)]
    /\ log' = IF rPc = "raised"
              THEN log \cup {[kind |-> "WARNING", what |-> "analyze_failed", path |-> cur.path]}
              ELSE log
    /\ pc' = "save"
    /\ rPc' = "off" /\ attempt' = 0 /\ max_retries' = 0
    /\ hist' = <<>> /\ sleeps' = <<>> /\ rResult' = <<>>
    /\ UNCHANGED <<args, disk, dirs, im_paths, idx, save_dir, analyzer, outcome, opened,
                   logoOpens, written, made, limVars, callVars, threads>>

\* ---- _add_logo_single, saving
\* Python's truth value of an optional text: None and "" are false.
Truthy(opt) == opt # <<>> /\ opt[1] # <<>>

\* The suffix left out when the name comes from the analyzer.
SaveNameNoSuffixForAi(path, suffix, has_analyzer, ai_filename) ==
    IF has_analyzer /\ Truthy(ai_filename)
    THEN ai_filename[1] \o PathSuffix(path.name)
    ELSE IF suffix # <<>>
         THEN PathStem(path.name) \o suffix \o PathSuffix(path.name)
         ELSE path.name

\* lines 130-153: the name of the file to save.
SaveName(path, suffix, has_analyzer, ai_filename) ==
    IF has_analyzer /\ Truthy(ai_filename)
    THEN ai_filename[1] \o suffix \o PathSuffix(path.name)
    ELSE IF suffix # <<>>
         THEN PathStem(path.name) \o suffix \o PathSuffix(path.name)
         ELSE path.name

\* lines 155-158: JPEG files are saved without alpha.
SaveMode(name) ==
    IF LowerStr(PathSuffix(name)) \in { <<".","j","p","g">>, <<".","j","p","e","g">> }
    THEN "RGB" ELSE "RGBA"

\* lines 127-161: the file is saved and the path printed; an error of save()
\* is no ValueError and leaves stamp_folder as an exception.
Save ==
    /\ pc = "save"
    /\ LET name == SaveName(cur.path, args.suffix, analyzer, cur.ai_filename)
       IN  \/ /\ written' = Append(written, [src |-> cur.path, dir |-> save_dir,
                                             name |-> name, mode |-> SaveMode(name)])
              /\ disk' = IF save_dir = "output" THEN disk \cup {Path("output", name)} ELSE disk
              /\ log' = log \cup {[kind |-> "INFO", what |-> "saved", path |-> cur.path]}
                            \cup (IF analyzer
                                  THEN {[kind |-> IF Truthy(cur.ai_filename) THEN "INFO" ELSE "WARNING",
                                         what |-> IF Truthy(cur.ai_filename) THEN "ai_name" ELSE "ai_failed",
                                         path |-> cur.path]}
                                  ELSE {})
              /\ idx' = idx + 1
              /\ pc' = "loop"
              /\ cur' = NoCur
              /\ UNCHANGED outcome
           \/ /\ Raises([type |-> "OSError", what |-> "save", path |-> cur.path])
              /\ UNCHANGED <<written, disk, log, idx, cur>>
    /\ UNCHANGED <<args, dirs, im_paths, save_dir, analyzer, opened, logoOpens, made, Others>>

\* ---- back in the caller
\* What the caller shows for the way stamp_folder ended: the exit status of
\* the command line, the GUI's dialog (gui.py lines 660-692).
ReportOf(entry, kind) ==
    CASE entry = "cli" /\ kind = "usage_error" -> "exit_2"
      [] entry = "cli" /\ kind = "raised" -> "exit_1"
      [] entry = "cli" /\ kind = "returned" -> "exit_0"
      [] entry = "gui" /\ kind = "raised" -> "error_dialog"
      [] entry = "gui" /\ kind = "returned" -> "success_dialog"
      [] entry = "api" /\ kind = "raised" -> "exception"
      [] entry = "api" /\ kind = "returned" -> "none"

CallerFinish ==
    /\ pc = "exit"
    /\ outcome' = outcome @@ [report |-> ReportOf(args.entry, outcome.kind)]
    /\ pc' = "done"
    /\ UNCHANGED <<args, disk, dirs, im_paths, idx, save_dir, analyzer, log, opened,
                   logoOpens, written, made, cur, Others>>

Next ==
    \/ CliMain \/ DirectCall
    \/ Discover \/ CheckDuplicates \/ AiInit \/ PrepareOutput \/ LoopNext
    \/ OpenImage \/ OpenLogo \/ Composite
    \/ AnalyzeStart \/ NamerCall \/ NamerHandle \/ NamerDone
    \/ Save \/ CallerFinish

Spec == Init /\ [][Next]_vars

\* ================================================================= claims
\* The status an error carries, as the claims read it: status_code, else
\* http_status, else none.
CarriedStatus(e) == IF e.status_code # None THEN e.status_code ELSE e.http_status

\* Transient as the specification defines it: a status in 429, 500, 502, 503,
\* 504, or no status at all.
SpecTransient(e) ==
    CarriedStatus(e) = None \/ CarriedStatus(e) \subseteq {429, 500, 502, 503, 504}

AllTransientFailures(h) == \A i \in DOMAIN h : ~h[i].ok /\ SpecTransient(h[i])

Front(h) == SubSeq(h, 1, Len(h) - 1)

\* C8: with max_retries = n >= 1, k transient failures followed by a success
\* (k < n) return that success after exactly k+1 calls and k sleeps; n
\* transient failures propagate the last failure after exactly n calls and
\* n-1 sleeps (no sleep after the final attempt); and while fewer than n
\* calls have all failed transiently the function keeps going, one sleep per
\* failure handled.
C8_RetryCounts ==
    max_retries >= 1 =>
        /\ Len(hist) <= max_retries
        /\ (hist # <<>> /\ hist[Len(hist)].ok /\ AllTransientFailures(Front(hist)))
             => /\ rPc = "returned"
                /\ rResult = <<hist[Len(hist)]>>
                /\ Len(sleeps) = Len(hist) - 1
        /\ (AllTransientFailures(hist) /\ Len(hist) < max_retries)
             => /\ rPc \in {"call", "except"}
                /\ rPc = "call" => Len(sleeps) = Len(hist)
                /\ rPc = "except" => Len(sleeps) = Len(hist) - 1 /\ ENABLED RetryHandle
        /\ (AllTransientFailures(hist) /\ Len(hist) = max_retries)
             => /\ rPc \in {"except", "raised"}
                /\ Len(sleeps) = max_retries - 1
                /\ rPc = "except" => ENABLED RetryHandle
                /\ rPc = "raised" => rResult = <<hist[Len(hist)]>>

\* C8 witness: two transient failures, two sleeps, then the third call succeeds.
C8_Witness ==
    /\ max_retries = 3 /\ rPc = "returned" /\ Len(hist) = 3 /\ Len(sleeps) = 2
    /\ hist[3].ok /\ AllTransientFailures(Front(hist))

\* C9: a failed attempt is retried if and only if attempts remain and the
\* error is transient (status 429, 500, 502, 503 or 504, or no status); any
\* other status is propagated at once: no sleep and no call follows it.
C9_RetryIffTransient ==
    /\ \A i \in DOMAIN hist :
         i < Len(hist) => ~hist[i].ok /\ SpecTransient(hist[i]) /\ i < max_retries
    /\ (hist # <<>> /\ ~hist[Len(hist)].ok) =>
         LET e == hist[Len(hist)]
         IN  /\ (SpecTransient(e) /\ Len(hist) < max_retries)
                  => rPc \in {"call", "except"} /\ (rPc = "call" <=> Len(sleeps) = Len(hist))
             /\ ~(SpecTransient(e) /\ Len(hist) < max_retries)
                  => /\ rPc \in {"except", "raised"}
                     /\ Len(sleeps) = Len(hist) - 1
                     /\ rPc = "raised" => rResult = <<e>>
    /\ rPc = "except" => ENABLED RetryHandle

\* C9 witness: a 404 on the first of three attempts is raised with no sleep.
C9_Witness ==
    /\ max_retries = 3 /\ rPc = "raised" /\ Len(hist) = 1 /\ sleeps = <<>>
    /\ CarriedStatus(hist[1]) = {404}

\* C10: every wait() after the first returns at least min_interval_s after
\* the previous wait() returned, and the first wait() does not sleep.
C10_LimiterSpacing ==
    /\ \A i \in DOMAIN lRet : i > 1 => lRet[i] - lRet[i - 1] >= min_interval_s
    /\ lSlept # <<>> => ~lSlept[1]

\* C10 witness: a second wait() that had to sleep, with a positive interval.
C10_Witness ==
    /\ min_interval_s > 0 /\ Len(lRet) >= 2 /\ lSlept[2]


\* ---- the batch
Logged(kind, what) == \E e \in log : e.kind = kind /\ e.what = what
LoggedFor(kind, what, path) == [kind |-> kind, what |-> what, path |-> path] \in log
SavedFrom(path) == \E i \in DOMAIN written : written[i].src = path
Ended == pc \in {"exit", "done"}
\* stamp_folder is past its checks and its output directory step.
Processing == pc \in {"loop", "open_im", "open_logo", "composite", "analyze", "naming", "save"}
NothingProcessed == opened = <<>> /\ written = <<>> /\ logoOpens = 0

\* Two discovered files share a base file name.
SameBaseName ==
    \E i, j \in DOMAIN im_paths : i # j /\ im_paths[i].name = im_paths[j].name

\* C1: when two discovered files have the same base file name, stamp_folder
\* raises a duplicate-filename error naming both colliding paths, before any
\* file is processed: no image is opened, no output directory is created and
\* no output file is written.
C1_DuplicateAborts ==
    SameBaseName =>
        /\ NothingProcessed /\ made = {}
        /\ pc \in {"check_dups", "exit", "done"}
        /\ Ended =>
             /\ outcome.kind = "raised"
             /\ outcome.exc.type = "ValueError" /\ outcome.exc.what = "duplicate"
             /\ outcome.exc.first # outcome.exc.second
             /\ outcome.exc.first.name = outcome.exc.second.name
             /\ \E i, j \in DOMAIN im_paths :
                    im_paths[i] = outcome.exc.first /\ im_paths[j] = outcome.exc.second

\* C1 witness: a/x.jpg and x.jpg found by a recursive search, the error raised.
C1_Witness ==
    /\ pc = "done" /\ args.recursive /\ SameBaseName
    /\ outcome.kind = "raised" /\ outcome.exc.what = "duplicate"
    /\ {outcome.exc.first.dir, outcome.exc.second.dir} = {"", "a"}

\* The position of a path in the discovered list.
PosOf(path) == CHOOSE k \in DOMAIN im_paths : im_paths[k] = path

\* C2: if the logo cannot be opened the batch aborts: nothing is saved for
\* any discovered file, and once the failure is detected at one file no later
\* file is processed.
C2_LogoAborts ==
    ~args.logo_ok =>
        /\ written = <<>>
        /\ logoOpens <= 1
        /\ pc \notin {"composite", "analyze", "naming", "save"}
        /\ \A e \in log : (e.kind = "ERROR" /\ e.what = "logo_unreadable") =>
               /\ Ended /\ logoOpens = 1
               /\ opened # <<>> /\ opened[Len(opened)] = e.path
               /\ idx = PosOf(e.path) /\ Len(opened) = idx

\* C2 witness: the logo failed at a file that is not the last one discovered.
C2_Witness ==
    /\ pc = "done" /\ ~args.logo_ok /\ Logged("ERROR", "logo_unreadable")
    /\ Len(opened) < Len(im_paths)

\* Nothing has ended the batch early: no error was printed, nothing raised.
NoFatal == ~(\E e \in log : e.kind = "ERROR") /\ outcome.kind # "raised"

\* C3: an image that cannot be opened is skipped with a warning, nothing is
\* saved for it, and the batch goes on: the loop moves to the next file, and a
\* run that meets no other error opens every discovered file and saves every
\* one that could be opened.
C3_UnreadableSkipped ==
    /\ \A k \in DOMAIN im_paths :
         LoggedFor("WARNING", "image_unreadable", im_paths[k]) =>
            /\ ~SavedFrom(im_paths[k])
            /\ idx > k
            /\ \E i \in DOMAIN opened : opened[i] = im_paths[k]
            /\ (idx = k + 1 /\ Ended /\ NoFatal) => idx > Len(im_paths)
    /\ (pc = "done" /\ NoFatal /\ outcome.kind = "returned") =>
         \A k \in DOMAIN im_paths :
            /\ opened[k] = im_paths[k]
            /\ SavedFrom(im_paths[k]) <=> ~LoggedFor("WARNING", "image_unreadable", im_paths[k])


\* C3 witness: a file was skipped and a file after it was saved.
C3_Witness ==
    /\ pc = "done"
    /\ \E k \in DOMAIN im_paths :
         /\ LoggedFor("WARNING", "image_unreadable", im_paths[k])
         /\ \E m \in DOMAIN im_paths : m > k /\ SavedFrom(im_paths[m])

\* <input>/output was there before the run.
OutputExisted == "output" \in dirs \ made

\* C4: without save_dir the output directory is <input>/output; if it exists
\* the batch fails without processing or saving any image, and if it does not
\* it is created before the first image is processed.
C4_DerivedOutputDir ==
    args.save_dir = "None" =>
        /\ save_dir \in {"None", "output"}
        /\ \A i \in DOMAIN written : written[i].dir = "output"
        /\ OutputExisted =>
             /\ NothingProcessed /\ ~Processing
             /\ Logged("ERROR", "output_exists") => Ended /\ outcome.kind = "returned"
        /\ (Processing \/ opened # <<>>) =>
             save_dir = "output" /\ "output" \in made /\ "output" \in dirs

\* C4 witness: images were found, <input>/output existed, the run has ended.
C4_Witness ==
    /\ pc = "done" /\ args.save_dir = "None" /\ im_paths # <<>>
    /\ OutputExisted /\ Logged("ERROR", "output_exists")

\* C5: with AI naming on, a naming failure (retries exhausted or a
\* non-transient error) does not abort the batch: analyze_image returns None,
\* the image is saved as <original stem><suffix><original extension>, and the
\* loop goes on with the remaining images.
C5_NamingFailureFallsBack ==
    /\ (pc = "naming" /\ rPc = "raised") =>
         /\ ~hist[Len(hist)].ok
         /\ Len(hist) = DefaultMaxRetries \/ ~SpecTransient(hist[Len(hist)])
         /\ outcome.kind = "running"
         /\ ENABLED NamerDone
    /\ \A k \in DOMAIN im_paths :
         LoggedFor("WARNING", "analyze_failed", im_paths[k]) =>
            /\ idx >= k
            /\ idx = k =>
                 \/ pc = "save" /\ cur.ai_filename = <<>> /\ outcome.kind = "running"
                 \/ Ended /\ outcome.kind = "raised" /\ outcome.exc.what = "save"
            /\ idx > k => SavedFrom(im_paths[k])
            /\ \A i \in DOMAIN written : written[i].src = im_paths[k] =>
                 /\ written[i].dir = save_dir
                 /\ written[i].name =
                      PathStem(im_paths[k].name) \o args.suffix \o PathSuffix(im_paths[k].name)
            /\ (idx = k + 1 /\ Ended /\ NoFatal) => idx > Len(im_paths)

\* C5 witness: naming failed for an image after three rate-limit errors, the
\* image was saved under its own stem plus a suffix, and a later image was
\* saved too.
C5_Witness ==
    /\ pc = "done" /\ args.suffix # <<>>
    /\ \E k \in DOMAIN im_paths :
         /\ LoggedFor("WARNING", "analyze_failed", im_paths[k])
         /\ SavedFrom(im_paths[k])
         /\ \E m \in DOMAIN im_paths : m > k /\ SavedFrom(im_paths[m])

\* A batch-fatal error happened: duplicate file names, an unreadable logo, or
\* the derived output directory existing.
BatchFatal ==
    \/ (outcome.kind = "raised" /\ outcome.exc.what = "duplicate")
    \/ Logged("ERROR", "logo_unreadable")
    \/ Logged("ERROR", "output_exists")

FailureReports == {"exit_1", "exit_2", "error_dialog", "exception"}

\* C6: every batch-fatal error ends stamp_folder with a failure its caller
\* sees: the command line exits non-zero, the GUI reports a failure; such a
\* batch is never reported as a normal completion.
C6_FatalIsReported ==
    (pc = "done" /\ BatchFatal) => outcome.report \in FailureReports

\* The configuration errors: opacity outside [0, 1], logo scale outside (0, 1],
\* AI naming asked for with no API key.
ConfigError(a) ==
    \/ a.opacity < 0 \/ a.opacity > 1000
    \/ a.logo_scale <= 0 \/ a.logo_scale > 1000
    \/ (a.use_ai_naming /\ ~a.api_key /\ ~(a.entry = "cli" /\ a.env_key))

\* C7 as stated: whoever calls, a configuration error is rejected before any
\* processing: no output directory is created, no image is opened or saved.
C7_ConfigErrorRejected ==
    ConfigError(args) => NothingProcessed /\ made = {} /\ ~Processing

\* C7 amended: from the command line a configuration error is rejected by the
\* shell before stamp_folder is called (exit status 2, nothing discovered,
\* created, opened or saved); stamp_folder itself rejects AI naming without a
\* key before it creates the output directory or opens an image.
C7_ShellRejectsConfigError ==
    /\ (args.entry = "cli" /\ ConfigError(args)) =>
         /\ pc \in {"caller", "exit", "done"}
         /\ im_paths = <<>> /\ NothingProcessed /\ made = {}
         /\ Ended => outcome.kind = "usage_error"
         /\ pc = "done" => outcome.report = "exit_2"
    /\ (args.use_ai_naming /\ ~args.api_key /\ ~(args.entry = "cli" /\ args.env_key)) =>
         /\ NothingProcessed /\ made = {} /\ ~Processing /\ pc # "prepare"
         /\ (Ended /\ args.entry # "cli" /\ ~SameBaseName) =>
              outcome.kind = "raised" /\ outcome.exc.what = "api_key"

\* C7 witness: the command line was given opacity 1.5 and has exited.
C7_Witness ==
    /\ pc = "done" /\ args.entry = "cli" /\ args.opacity > 1000
    /\ outcome.kind = "usage_error"


\* ============================================ _clean_filename on its own
\* Raw texts have at most this many characters.
MaxTextLen == 4

\* A letter, the two separators, a space, a quote and a character the
\* sanitizer removes.
TextAlphabet == {"a", "_", "-", " ", "\"", "!"}

Texts(n) == UNION { [1..k -> TextAlphabet] : k \in 0..n }

\* Fallbacks: orig_filename is the image's name up to its first dot, which
\* may hold any character a file name may.
Fallbacks == { <<>>, <<"x">>, <<"I", "M", "G">>, <<"m", "y", " ", "p">> }

InitClean ==
    /\ BatchOff /\ RetryOff /\ LimiterOff
    /\ threads = <<>>
    /\ \E x \in Texts(MaxTextLen), n \in 0..(MaxTextLen + 1), f \in Fallbacks :
         call = [fn |-> "_clean_filename", filename |-> x, max_length |-> n,
                 orig_filename |-> f]
    /\ ret = <<>>

\* _clean_filename is called on the raw text.
CleanCall ==
    /\ call.fn = "_clean_filename" /\ ret = <<>>
    /\ ret' = <<CleanFilename(call.filename, call.max_length, call.orig_filename)>>
    /\ UNCHANGED <<batchVars, retryVars, limVars, call, threads>>

\* _clean_filename is called on what it returned, with the same max_length
\* and orig_filename.
CleanAgain ==
    /\ call.fn = "_clean_filename" /\ Len(ret) = 1
    /\ ret' = Append(ret, CleanFilename(ret[1], call.max_length, call.orig_filename))
    /\ UNCHANGED <<batchVars, retryVars, limVars, call, threads>>

NextClean == CleanCall \/ CleanAgain

SpecClean == InitClean /\ [][NextClean]_vars

\* C11 as stated: the sanitizer is idempotent for every raw text, maximum
\* length and fallback: applied to its own result it returns that result.
C11_Idempotent == Len(ret) = 2 => ret[2] = ret[1]

\* C11, amended: applying the sanitizer to its own result returns that result
\* whenever the first application returned the cleaned form (three or more
\* characters) or the fallback is itself a text the sanitizer returns as it is.
C11_IdempotentOnCleaned ==
    Len(ret) = 2
    /\ ( Len(Cleaned(call.filename, call.max_length)) >= 3
         \/ CleanFilename(call.orig_filename, call.max_length, call.orig_filename)
              = call.orig_filename )
    => ret[2] = ret[1]

\* A truncated name of three or more characters went through both calls.
C11_Witness ==
    /\ Len(ret) = 2
    /\ Len(call.filename) > call.max_length
    /\ Len(ret[1]) >= 3 /\ ret[1] # call.filename /\ ret[1] # call.orig_filename

\* C12: when the cleaned form has fewer than three characters the sanitizer
\* returns the fallback as it was given; when it has three or more it returns
\* the cleaned form, which has at most max_length characters, all of them
\* letters, digits or underscores, and no underscore at either end.
C12_FallbackBelowThree ==
    Len(ret) >= 1 =>
        LET c == Cleaned(call.filename, call.max_length)
        IN  /\ Len(c) < 3 => ret[1] = call.orig_filename
            /\ Len(c) >= 3 =>
                  /\ ret[1] = c
                  /\ Len(ret[1]) <= call.max_length
                  /\ \A i \in DOMAIN c : c[i] \in KeptChars \ {"-"}
                  /\ c[1] # "_" /\ c[Len(c)] # "_"

\* A text whose cleaned form has two characters came back as the fallback, which
\* the sanitizer would itself change.
C12_Witness ==
    /\ Len(ret) >= 1
    /\ Len(Cleaned(call.filename, call.max_length)) = 2
    /\ ret[1] = call.orig_filename
    /\ call.orig_filename = <<"m", "y", " ", "p">>


\* ====================== _calculate_position and _process_logo_on_image
\* A coordinate below zero is raised to zero.
CalculatePositionClamped(im_width, im_height, logo_width, logo_height, vertical_pos, horizontal_pos, padding) ==
    LET x == IF horizontal_pos = "LEFT" THEN padding
             ELSE IF horizontal_pos = "RIGHT" THEN im_width - logo_width - padding
             ELSE (im_width - logo_width) \div 2
        y == IF vertical_pos = "TOP" THEN padding
             ELSE im_height - logo_height - padding
    IN  <<Max(0, x), Max(0, y)>>

\* RIGHT and BOTTOM measured without the logo's own size.
CalculatePositionNoLogoSize(im_width, im_height, logo_width, logo_height, vertical_pos, horizontal_pos, padding) ==
    LET x == IF horizontal_pos = "LEFT" THEN padding
             ELSE IF horizontal_pos = "RIGHT" THEN im_width - padding
             ELSE (im_width - logo_width) \div 2
        y == IF vertical_pos = "TOP" THEN padding
             ELSE im_height - padding
    IN  <<x, y>>

\* _calculate_position (lines 164-189).  Python's // rounds towards minus
\* infinity, as \div does.
CalculatePosition(im_width, im_height, logo_width, logo_height, vertical_pos, horizontal_pos, padding) ==
    LET x == IF horizontal_pos = "LEFT" THEN padding
             ELSE IF horizontal_pos = "RIGHT" THEN im_width - logo_width - padding
             ELSE (im_width - logo_width) \div 2
        y == IF vertical_pos = "TOP" THEN padding
             ELSE im_height - logo_height - padding
    IN  <<x, y>>

\* The alpha sample rounded to the nearest value instead of truncated.
ScaleAlphaRounded(p, opacity) ==
    IF opacity < 1000 THEN (p * opacity + 500) \div 1000 ELSE p

\* lines 214-221: below opacity 1.0 each alpha sample p becomes
\* int(p * opacity); otherwise the logo is left as it is.
ScaleAlpha(p, opacity) ==
    IF opacity < 1000 THEN IntPerMille(p * opacity) ELSE p

\* _process_logo_on_image (lines 203-229) on an image and a logo of the given
\* sizes: the size of the resized logo, what one alpha sample `alpha` of the
\* resized logo becomes, and where the logo is pasted; resize raises
\* ValueError unless both new sides are positive.
ProcessLogoOnImage(c) ==
    LET new_width == NewWidth(c.im_width, c.logo_scale)
        new_height == NewHeight(c.logo_height, new_width, c.logo_width)
    IN  IF new_width < 1 \/ new_height < 1
        THEN [raised |-> "ValueError"]
        ELSE [raised |-> "no",
              logo_width |-> new_width, logo_height |-> new_height,
              alpha |-> ScaleAlpha(c.alpha, c.opacity),
              position |-> CalculatePosition(c.im_width, c.im_height, new_width, new_height,
                                             c.vertical_pos, c.horizontal_pos, c.padding)]

\* Images and logos have sides of at most MaxSide (logos one more) pixels in
\* the calls of _calculate_position.
MaxSide == 4

VerticalPositions == {"TOP", "BOTTOM"}
HorizontalPositions == {"LEFT", "CENTER", "RIGHT"}

PositionCalls ==
    [fn : {"_calculate_position"},
     im_width : 1..MaxSide, im_height : 1..MaxSide,
     logo_width : 1..(MaxSide + 1), logo_height : 1..(MaxSide + 1),
     vertical_pos : VerticalPositions, horizontal_pos : HorizontalPositions,
     padding : (-1)..MaxSide]

\* Image and logo sizes of the calls of _process_logo_on_image.
ImageSizes == { <<800, 600>>, <<100, 50>>, <<10, 10>>, <<3, 3>> }
LogoSizes == { <<200, 100>>, <<300, 100>>, <<7, 3>> }
\* logo_scale and opacity in thousandths.
LogoScales == {10, 200, 250, 500, 1000}
Opacities == {0, 250, 500, 750, 1000}
AlphaSamples == {0, 1, 100, 255}

ProcessCalls ==
    { [fn |-> "_process_logo_on_image",
       im_width |-> im[1], im_height |-> im[2], logo_width |-> lg[1], logo_height |-> lg[2],
       vertical_pos |-> v, horizontal_pos |-> h, padding |-> pad,
       logo_scale |-> sc, opacity |-> op, alpha |-> a] :
       im \in ImageSizes, lg \in LogoSizes, v \in VerticalPositions,
       h \in HorizontalPositions, pad \in {0, 10}, sc \in LogoScales, op \in Opacities,
       a \in AlphaSamples }

InitGeometry ==
    /\ BatchOff /\ RetryOff /\ LimiterOff
    /\ threads = <<>>
    /\ call \in PositionCalls \cup ProcessCalls
    /\ ret = <<>>

PositionCall ==
    /\ call.fn = "_calculate_position" /\ ret = <<>>
    /\ ret' = <<CalculatePosition(call.im_width, call.im_height, call.logo_width,
                                  call.logo_height, call.vertical_pos, call.horizontal_pos,
                                  call.padding)>>
    /\ UNCHANGED <<batchVars, retryVars, limVars, call, threads>>

ProcessCall ==
    /\ call.fn = "_process_logo_on_image" /\ ret = <<>>
    /\ ret' = <<ProcessLogoOnImage(call)>>
    /\ UNCHANGED <<batchVars, retryVars, limVars, call, threads>>

NextGeometry == PositionCall \/ ProcessCall

SpecGeometry == InitGeometry /\ [][NextGeometry]_vars


\* _calculate_position has returned <<x, y>>.
Positioned == call.fn = "_calculate_position" /\ Len(ret) = 1

\* C13: _calculate_position returns x = padding for LEFT, x = im_width -
\* logo_width - padding for RIGHT, the floor of (im_width - logo_width) / 2 for
\* CENTER, y = padding for TOP and y = im_height - logo_height - padding for
\* BOTTOM, whatever the sizes and the padding: nothing is clamped.
C13_PositionFormulas ==
    Positioned =>
        LET x == ret[1][1]
            y == ret[1][2]
            free == call.im_width - call.logo_width
        IN  /\ call.horizontal_pos = "LEFT" => x = call.padding
            /\ call.horizontal_pos = "RIGHT" => x = free - call.padding
            /\ call.horizontal_pos = "CENTER" => 2 * x <= free /\ free < 2 * x + 2
            /\ call.vertical_pos = "TOP" => y = call.padding
            /\ call.vertical_pos = "BOTTOM" =>
                  y = call.im_height - call.logo_height - call.padding

\* A logo wider and taller than the image less the padding got negative
\* coordinates at RIGHT and BOTTOM.
C13_Witness ==
    /\ Positioned
    /\ call.horizontal_pos = "RIGHT" /\ call.vertical_pos = "BOTTOM"
    /\ call.padding > 0
    /\ ret[1][1] < 0 /\ ret[1][2] < 0

\* The logo fits the image with the padding on both sides.
FitsWithPadding ==
    /\ 0 <= call.padding
    /\ call.padding <= call.im_width /\ call.padding <= call.im_height
    /\ call.logo_width <= call.im_width - 2 * call.padding
    /\ call.logo_height <= call.im_height - 2 * call.padding

\* C14: for every anchor, when 0 <= padding <= min(im_width, im_height) and the
\* logo is no larger than the image less twice the padding, the logo's box at
\* the returned position lies within the image.
C14_BoxWithinImage ==
    Positioned /\ FitsWithPadding =>
        LET x == ret[1][1]
            y == ret[1][2]
        IN  /\ 0 <= x /\ x + call.logo_width <= call.im_width
            /\ 0 <= y /\ y + call.logo_height <= call.im_height

\* A logo that just fits between the paddings was placed at CENTER, BOTTOM.
C14_Witness ==
    /\ Positioned /\ FitsWithPadding
    /\ call.padding > 0
    /\ call.horizontal_pos = "CENTER" /\ call.vertical_pos = "BOTTOM"
    /\ call.logo_width = call.im_width - 2 * call.padding
    /\ call.logo_height < call.im_height - 2 * call.padding

\* _process_logo_on_image has returned an image.
Processed ==
    call.fn = "_process_logo_on_image" /\ Len(ret) = 1 /\ ret[1].raised = "no"

\* The call of scenario A: base 800x600, logo 200x100, scale 0.25,
\* BOTTOM/CENTER, padding 10.
ScenarioA ==
    /\ call.im_width = 800 /\ call.im_height = 600
    /\ call.logo_width = 200 /\ call.logo_height = 100
    /\ call.logo_scale = 250 /\ call.padding = 10
    /\ call.vertical_pos = "BOTTOM" /\ call.horizontal_pos = "CENTER"

\* The new width is floor(im_width * logo_scale), the logo is placed by its
\* new size, and scenario A gives a 200x100 logo at (300, 490).
WidthAndPlacement ==
    /\ 1000 * ret[1].logo_width <= call.im_width * call.logo_scale
    /\ call.im_width * call.logo_scale < 1000 * (ret[1].logo_width + 1)
    /\ ret[1].position =
         CalculatePosition(call.im_width, call.im_height, ret[1].logo_width,
                           ret[1].logo_height, call.vertical_pos, call.horizontal_pos,
                           call.padding)
    /\ ScenarioA =>
         /\ ret[1].logo_width = 200 /\ ret[1].logo_height = 100
         /\ ret[1].position = <<300, 490>>

\* C15 as stated: the logo is resized to width floor(im_width * logo_scale) and
\* to height logo_height * new_width / logo_width rounded to the nearest
\* integer, and placed by the resized dimensions.
C15_HeightRounded ==
    Processed =>
        /\ WidthAndPlacement
        /\ LET d == 2 * (call.logo_height * ret[1].logo_width
                         - ret[1].logo_height * call.logo_width)
           IN  -call.logo_width <= d /\ d <= call.logo_width

\* C15, amended: the logo is resized to width floor(im_width * logo_scale) and
\* to height floor(logo_height * new_width / logo_width), and placed by the
\* resized dimensions.
C15_HeightTruncated ==
    Processed =>
        /\ WidthAndPlacement
        /\ ret[1].logo_height * call.logo_width <= call.logo_height * ret[1].logo_width
        /\ call.logo_height * ret[1].logo_width < (ret[1].logo_height + 1) * call.logo_width

\* A 300x100 logo on an 800 pixel wide image at scale 0.25 came out 200x66,
\* where rounding gives 67.
C15_Witness ==
    /\ Processed
    /\ call.im_width = 800 /\ call.logo_width = 300 /\ call.logo_height = 100
    /\ call.logo_scale = 250
    /\ ret[1].logo_width = 200 /\ ret[1].logo_height = 66

\* C16: below opacity 1.0 an alpha sample a of the resized logo becomes
\* floor(a * opacity), so 255 at opacity 0.5 becomes 127; at opacity 1.0 the
\* sample is unchanged.
C16_OpacityTruncates ==
    Processed =>
        /\ call.opacity < 1000 =>
              /\ 1000 * ret[1].alpha <= call.alpha * call.opacity
              /\ call.alpha * call.opacity < 1000 * (ret[1].alpha + 1)
        /\ call.opacity = 1000 => ret[1].alpha = call.alpha
        /\ call.alpha = 255 /\ call.opacity = 500 => ret[1].alpha = 127

\* A fully opaque sample went through opacity 0.5.
C16_Witness ==
    Processed /\ call.alpha = 255 /\ call.opacity = 500 /\ ret[1].alpha = 127


\* C17: every image is saved as <output dir>/<stem><suffix><extension>, where
\* the stem is the analyzer's result when AI naming is on and that result is
\* neither None nor empty, and the source file's stem otherwise; the
\* extension is the source file's own.
C17_SavedName ==
    [][ pc = "save" /\ pc' = "loop" =>
          LET w == written'[Len(written')]
              named == /\ args.use_ai_naming
                       /\ cur.ai_filename # <<>>
                       /\ cur.ai_filename[1] # <<>>
              stem == IF named THEN cur.ai_filename[1] ELSE PathStem(cur.path.name)
          IN  /\ Len(written') = Len(written) + 1
              /\ w.src = cur.path
              /\ w.dir = save_dir
              /\ w.dir = IF args.save_dir = "None" THEN "output" ELSE args.save_dir
              /\ w.name = stem \o args.suffix \o PathSuffix(cur.path.name) ]_vars

\* With a suffix given, y.PNG was saved under the analyzer's name and x.jpg,
\* whose naming failed, under its own stem.
C17_Witness ==
    /\ args.use_ai_naming /\ args.suffix = <<"_", "s">>
    /\ \E i \in DOMAIN written :
         /\ written[i].src.name = y_PNG
         /\ written[i].name = <<"a", "_", "c", "a", "t", "_", "s", ".", "P", "N", "G">>
    /\ \E i \in DOMAIN written :
         /\ written[i].src.name = x_jpg
         /\ written[i].name = <<"x", "_", "s", ".", "j", "p", "g">>
         /\ LoggedFor("WARNING", "ai_failed", written[i].src)


\* C18: in one batch run the logo file is opened exactly once however many
\* images are discovered, and before any image is processed: once an image
\* has been opened the logo has been opened, and it is never opened again.
C18_LogoOpenedOnce ==
    /\ logoOpens <= 1
    /\ opened # <<>> => logoOpens = 1

\* The loop is over, or was left, after stamp_folder had made its checks and
\* its output directory.
LoopEntered == idx >= 1

\* C19: an error met while compositing or saving one image that is not
\* batch-fatal is logged and the batch goes on: a run that got to its loop
\* and met no unreadable logo returns normally after taking every discovered
\* image.
C19_OtherErrorsContinue ==
    Ended /\ LoopEntered /\ ~Logged("ERROR", "logo_unreadable") =>
        /\ outcome.kind = "returned"
        /\ Len(opened) = Len(im_paths)


\* ===================== SimpleLimiter.wait called from several threads
\* The threads that share one SimpleLimiter.
Threads == {1, 2}

\* A thread outside wait().  Inside, now and wait_s are the locals of the
\* call, wake is the earliest end of its sleep and seen the number of calls
\* that had returned when the call began; wait_s and seen stay as they were
\* when the call returns.
IdleThread == [pc |-> "idle", now |-> 0, wait_s |-> 0, wake |-> 0, seen |-> 0]

\* wait_s computed from the local now without the interval.
WaitSFromNoInterval(t_now) == Max(0, last - t_now)

\* line 23: wait_s from the thread's own reading of the clock.
WaitSFrom(t_now) == Max(0, last + min_interval_s - t_now)

InitThreads ==
    /\ BatchOff /\ RetryOff
    /\ call = [fn |-> "none"] /\ ret = <<>>
    /\ \E arg \in MinIntervalArgs : min_interval_s = LimiterInterval(arg)
    /\ last = 0
    /\ now = StartClock
    /\ lRet = <<>> /\ lSlept = <<>>
    /\ threads = [t \in Threads |-> IdleThread]

InWait == { t \in Threads : threads[t].pc # "idle" }

\* line 22: a thread enters wait() and reads the clock.
ThreadReadClock(t) ==
    /\ threads[t].pc = "idle"
    /\ Len(lRet) + Cardinality(InWait) < MaxWaits
    /\ threads' = [threads EXCEPT ![t] = [pc |-> "compute", now |-> now, wait_s |-> 0,
                                          wake |-> 0, seen |-> Len(lRet)]]
    /\ UNCHANGED <<limVars, batchVars, retryVars, callVars>>

\* lines 23-24: it reads _last and computes wait_s; no lock is taken.
ThreadCompute(t) ==
    /\ threads[t].pc = "compute"
    /\ LET wait_s == WaitSFrom(threads[t].now)
       IN  threads' = [threads EXCEPT ![t].wait_s = wait_s,
                                      ![t].wake = IF wait_s # 0 THEN now + wait_s ELSE 0,
                                      ![t].pc = IF wait_s # 0 THEN "sleep" ELSE "stamp"]
    /\ UNCHANGED <<limVars, batchVars, retryVars, callVars>>

\* line 25: time.sleep(wait_s) ends no earlier than wait_s after it began.
ThreadSleep(t) ==
    /\ threads[t].pc = "sleep"
    /\ \E over \in 0..MaxOversleep : now' = Max(now, threads[t].wake + over)
    /\ threads' = [threads EXCEPT ![t].pc = "stamp", ![t].wake = 0]
    /\ UNCHANGED <<last, min_interval_s, lRet, lSlept, batchVars, retryVars, callVars>>

\* line 26: it stores the clock in _last and returns.
ThreadStamp(t) ==
    /\ threads[t].pc = "stamp"
    /\ last' = now
    /\ lRet' = Append(lRet, now)
    /\ lSlept' = Append(lSlept, threads[t].wait_s # 0)
    /\ threads' = [threads EXCEPT ![t].pc = "idle", ![t].now = 0]
    /\ UNCHANGED <<now, min_interval_s, batchVars, retryVars, callVars>>

\* Time passes.
ThreadsTick ==
    /\ now < StartClock + MaxClock
    /\ now' = now + 1
    /\ UNCHANGED <<last, min_interval_s, lRet, lSlept, batchVars, retryVars, callVars, threads>>

NextThreads ==
    \/ \E t \in Threads : ThreadReadClock(t)
    \/ \E t \in Threads : ThreadCompute(t)
    \/ \E t \in Threads : ThreadSleep(t)
    \/ \E t \in Threads : ThreadStamp(t)
    \/ ThreadsTick

SpecThreads == InitThreads /\ [][NextThreads]_vars

SuppliedHint(e) ==
    LET ra == IF e.retry_after_hdr # None THEN e.retry_after_hdr ELSE e.retry_after_hdr_lc
    IN  IF ra = None THEN None ELSE ParseFloat(CHOOSE v \in ra : TRUE)

\* C22: after a transient failure of attempt i with attempts remaining,
\* simple_retry sleeps base * j with j in [0.8, 1.2], where base is the
\* error's retry-after hint whenever it carries one, a hint of 0 included,
\* and 2^i otherwise.
C22_BackoffSleep ==
    \A k \in DOMAIN sleeps :
        /\ 800 <= sleeps[k].jitter /\ sleeps[k].jitter <= 1200
        /\ sleeps[k].base = IF SuppliedHint(hist[k]) # None
                            THEN CHOOSE v \in SuppliedHint(hist[k]) : TRUE
                            ELSE Pow2(k - 1)


\* C26 as stated: for every raw text, maximum length and fallback the name
\* the sanitizer returns has at most max_length characters.
C26_AtMostMaxLength == Len(ret) >= 1 => Len(ret[1]) <= call.max_length

\* C26, amended: the name the sanitizer returns is either the fallback, as long
\* as it was given, or a cleaned name of at least three and at most max_length
\* characters.
C26_CleanedAtMostMaxLength ==
    Len(ret) >= 1 =>
        \/ ret[1] = call.orig_filename
        \/ 3 <= Len(ret[1]) /\ Len(ret[1]) <= call.max_length

\* A text longer than max_length came back cut to max_length characters, none
\* of them lost to the trailing strip.
C26_Witness ==
    /\ Len(ret) >= 1
    /\ Len(Cleaned(call.filename, MaxTextLen)) > call.max_length
    /\ ret[1] # call.orig_filename
    /\ Len(ret[1]) = call.max_length


\* ========================================= batches with AI naming on
a_b_jpg == <<"a", ".", "b", ".", "j", "p", "g">>
dot_h_jpg == <<".", "h", ".", "j", "p", "g">>

\* An input directory of JPEG files: a plain name, a name with two dots and a
\* name that begins with a dot.
NamingPaths == { Path("", x_jpg), Path("", a_b_jpg), Path("", dot_h_jpg) }

\* The batch is started with AI naming on and a key, from the command line or
\* by a direct call, on a directory that holds some of these files.
InitNaming ==
    /\ RetryOff /\ CallOff /\ LimiterOff
    /\ \E e \in {"cli", "api"}, sfx \in Suffixes :
         args = MkArgs(e, ValidOptions,
                       [use_ai_naming |-> TRUE, api_key |-> TRUE, env_key |-> FALSE],
                       sfx, FALSE, "None", TRUE)
    /\ disk \in SUBSET NamingPaths
    /\ dirs = {}
    /\ pc = "caller"
    /\ im_paths = <<>> /\ idx = 0 /\ save_dir = "None" /\ analyzer = FALSE
    /\ outcome = [kind |-> "running"]
    /\ log = {} /\ opened = <<>> /\ logoOpens = 0 /\ written = <<>> /\ made = {}
    /\ cur = NoCur

SpecNaming == InitNaming /\ [][Next]_vars


\* C23: when the service answers and its text sanitizes to fewer than three
\* characters, analyze_image returns the source file's stem, the file name
\* without its last extension, whatever the name: a.b for a.b.jpg, and
\* likewise for a name that begins with a dot.
C23_FallbackIsStem ==
    [][ ( /\ pc = "naming" /\ pc' = "save"
          /\ rPc = "returned"
          /\ Len(Cleaned(Strip(rResult[1].text, Whitespace), args.max_filename_length)) < 3 )
        => cur'.ai_filename = <<PathStem(cur.path.name)>> ]_vars

\* C25: in a batch that passed the duplicate file name check no two images
\* are saved to the same output path: nothing the run wrote is overwritten
\* by the same run.
C25_NoOverwrite ==
    \A i, j \in DOMAIN written :
        i # j => <<written[i].dir, written[i].name>> # <<written[j].dir, written[j].name>>


\* The run is one on a directory whose <input>/output an earlier run has
\* made, with no output directory given.
SecondRun == args.save_dir = "None" /\ OutputExisted

\* C24: a run with no explicit output directory on an input directory whose
\* <input>/output was made by an earlier run aborts: it opens no image and no
\* logo, so no file under output is processed as an input, it creates no
\* directory, it writes no file, it leaves the files on disk as they are, and
\* it ends with an exception, a usage error or a logged error - with
\* recursive and non-recursive search and with every suffix.
C24_SecondRunAborts ==
    /\ [](SecondRun =>
            /\ opened = <<>> /\ logoOpens = 0
            /\ written = <<>> /\ made = {}
            /\ pc = "done" =>
                  \/ outcome.kind \in {"raised", "usage_error"}
                  \/ \E e \in log : e.kind = "ERROR")
    /\ [][SecondRun => disk' = disk /\ dirs' = dirs]_vars

\* A recursive search with a suffix found a file under the earlier run's
\* output directory next to fresh input, and the run ended at the existing
\* directory.
C24_Witness ==
    /\ SecondRun /\ pc = "done"
    /\ args.recursive /\ args.suffix # <<>>
    /\ \E i, j \in DOMAIN im_paths : im_paths[i].dir = "output" /\ im_paths[j].dir = ""
    /\ Logged("ERROR", "output_exists")


\* ================== one ImageAnalyzer naming the images of a batch
\* analyze_image is called for this many images, one after another.
AnalyzedImages == {1, 2}

\* Milliseconds that pass between two calls of analyze_image.
GapsBetweenImages == {0, 100}

\* What client.responses.create does: an answer, a rate limit error without
\* and with a request to retry at once, a client error.
NamerOutcomes ==
    { Ok(<<"o", "k">>), Err({429}, None, FALSE, None, None),
      Err({429}, None, TRUE, {"0"}, None), Err({404}, None, FALSE, None, None) }

\* ImageAnalyzer.__init__ (lines 56-66): one limiter for all calls.
InitNamer ==
    /\ BatchOff /\ RetryOff /\ CallOff
    /\ min_interval_s = LimiterInterval(DefaultMinInterval)
    /\ last = 0
    /\ now = StartClock
    /\ lRet = <<>> /\ lSlept = <<>>

\* analyze_image is called for the next image and enters simple_retry
\* through _call_responses (line 72).
NamerAnalyze ==
    /\ call.fn = "none"
    /\ Len(ret) < Cardinality(AnalyzedImages)
    /\ call' = [fn |-> "analyze_image"]
    /\ \E gap \in GapsBetweenImages : now' = now + gap
    /\ RetryEnter(DefaultMaxRetries)
    /\ UNCHANGED <<batchVars, last, min_interval_s, lRet, lSlept, ret, threads>>

\* _do (lines 69-71): wait on the limiter, then send the request.  lRet keeps
\* the time of every return of wait(), which is when the request goes out.
NamerRequest ==
    /\ call.fn = "analyze_image"
    /\ \E over \in 0..MaxOversleep : LimiterWait(over)
    /\ \E o \in NamerOutcomes : RetryCallStep(o)
    /\ lRet' = Append(lRet, now')
    /\ lSlept' = Append(lSlept, WaitS # 0)
    /\ UNCHANGED <<batchVars, callVars, threads>>

\* simple_retry's handler (lines 33-51); the sleep takes base * jitter.
NamerBackoff ==
    /\ call.fn = "analyze_image"
    /\ \E j \in JitterSamples :
         /\ RetryHandleStep(j)
         /\ now' = IF rPc' = "call" THEN now + sleeps'[Len(sleeps')].base * j ELSE now
    /\ UNCHANGED <<batchVars, last, min_interval_s, lRet, lSlept, callVars, threads>>

\* analyze_image returns (lines 155-159); ret keeps how the call ended and how
\* many requests it sent.
NamerReturn ==
    /\ call.fn = "analyze_image"
    /\ rPc \in {"returned", "raised"}
    /\ ret' = Append(ret, [ended |-> rPc, requests |-> Len(hist)])
    /\ call' = [fn |-> "none"]
    /\ rPc' = "off" /\ attempt' = 0 /\ max_retries' = 0
    /\ hist' = <<>> /\ sleeps' = <<>> /\ rResult' = <<>>
    /\ UNCHANGED <<batchVars, limVars, threads>>

NextNamer == NamerAnalyze \/ NamerRequest \/ NamerBackoff \/ NamerReturn

SpecNamer == InitNamer /\ [][NextNamer]_vars

RECURSIVE RequestsOf(_)
\* The requests sent by the calls of analyze_image that have returned.
RequestsOf(calls) ==
    IF calls = <<>> THEN 0 ELSE Head(calls).requests + RequestsOf(Tail(calls))

\* C21: every request one ImageAnalyzer sends, retries included, comes after a
\* wait() of its own on the limiter, and any two consecutive requests, within
\* one image and from one image to the next, are sent at least
\* min_interval_s apart.
C21_RequestsSpaced ==
    /\ Len(lRet) = RequestsOf(ret) + Len(hist)
    /\ \A i \in 1..(Len(lRet) - 1) : lRet[i + 1] - lRet[i] >= min_interval_s

\* The first image took a retry at once after a rate limit error, the second
\* followed without a gap: the second and the third request each waited out
\* the interval.
C21_Witness ==
    /\ Len(ret) = 2 /\ ret[1].requests = 2 /\ ret[2].requests = 1
    /\ lSlept = <<FALSE, TRUE, TRUE>>
    /\ lRet[3] - lRet[1] = 2 * min_interval_s

=============================================================================
